---- MODULE Spec2Model ----
(***************************************************************************)
(* SegmentedButtonGroup (src/components/SegmentedButton/                   *)
(* SegmentedButtonGroup.tsx): a function component that validates the      *)
(* number of its children, provides {value, onValueChange} through a       *)
(* context and clones every SegmentedButton child with a position tag.     *)
(*                                                                         *)
(* The state is what the host holds after it called the component: the     *)
(* props of that call and what the call produced (an error, or the context *)
(* value, the container's style and the container's children).             *)
(***************************************************************************)
EXTENDS Naturals, Sequences, FiniteSets

VARIABLES
    props,          \* the props of the latest call of the component
    outcome,        \* "none" (not rendered yet), "error" (threw), "ok"
    context,        \* the value given to SegmentedButtonGroupContext.Provider
    containerStyle, \* the style prop of the View
    output,         \* the children of the View: the result of Children.map
    invoked,        \* the latest call of a change callback by a descendant
    lastOp,         \* the latest operation: "init", "render" or "press"
    probe           \* history variable: one earlier render, props and result

vars == <<props, outcome, context, containerStyle, output, invoked, lastOp, probe>>

rendering == <<outcome, context, containerStyle, output>>

(***************************************************************************)
(* Bounds and program constants.                                           *)
(***************************************************************************)
MaxChildren == 6

MinChoices == 2

MaxChoices == 5

(***************************************************************************)
(* Values.  JavaScript's undefined is one string; a selection value and a  *)
(* style are tagged records, so that a string, an array and null stay      *)
(* different values that can be compared.                                  *)
(***************************************************************************)
Undefined == "undefined"

NullValue == [kind |-> "null", ids |-> <<>>]

UndefinedValue == [kind |-> "undefined", ids |-> <<>>]

StringValue(s) == [kind |-> "string", ids |-> <<s>>]

ArrayValue(ss) == [kind |-> "array", ids |-> ss]

Values == {NullValue, StringValue("left"), ArrayValue(<<"left", "right">>)}

Callbacks == {"setValue", "setOther"}

Multiselects == {"true", "false", Undefined}

NoStyle == [tag |-> "undefined", name |-> "", items |-> <<>>]

StyleObject(n) == [tag |-> "object", name |-> n, items |-> <<>>]

StyleArray(ss) == [tag |-> "array", name |-> "", items |-> ss]

GroupStyle == StyleObject("group")

Styles == {NoStyle, GroupStyle}

styles == [row |-> StyleObject("flexDirection:row")]

(***************************************************************************)
(* Children.  An element is its type, its key and its props; null stands   *)
(* for the empty nodes (null, undefined, a boolean).                       *)
(***************************************************************************)
NoKey == "null"

NoProps ==
    [value |-> Undefined, icon |-> Undefined, segment |-> Undefined,
     multiselect |-> Undefined, style |-> NoStyle]

NullChild == [type |-> "null", key |-> NoKey, props |-> NoProps]

LeftButton ==
    [type |-> "SegmentedButton", key |-> NoKey,
     props |-> [value |-> "left", icon |-> "format-align-left",
                segment |-> Undefined, multiselect |-> Undefined,
                style |-> NoStyle]]

RightButton ==
    [type |-> "SegmentedButton", key |-> "k",
     props |-> [value |-> "right", icon |-> "format-align-right",
                segment |-> "last", multiselect |-> "true",
                style |-> StyleObject("child")]]

OtherElement ==
    [type |-> "View", key |-> NoKey,
     props |-> [value |-> Undefined, icon |-> Undefined,
                segment |-> Undefined, multiselect |-> Undefined,
                style |-> StyleObject("other")]]

Child == {NullChild, OtherElement, LeftButton, RightButton}

SegmentedButton == "SegmentedButton"

(***************************************************************************)
(* React.Children.count: every node counts, an empty node too.             *)
(***************************************************************************)
ChildrenCount(children) == Len(children)

(***************************************************************************)
(* React.cloneElement: a copy of the element with the props of config      *)
(* written over its own; type and key are kept.                            *)
(***************************************************************************)
\* Faulty variant: the copy is built from config alone, the element's own props lost.
cloneElementFresh(element, config) ==
    [element EXCEPT !.props =
        [f \in DOMAIN element.props |->
            IF f \in DOMAIN config THEN config[f] ELSE NoProps[f]]]

cloneElement(element, config) ==
    [element EXCEPT !.props =
        [f \in DOMAIN element.props |->
            IF f \in DOMAIN config THEN config[f] ELSE element.props[f]]]

(***************************************************************************)
(* The callback of Children.map, lines 78-93.                              *)
(***************************************************************************)
\* Faulty variant: the final index taken to be count, not count - 1.
segmentOfOffByOne(i, count) ==
    IF i = 0 THEN "first" ELSE IF i = count THEN "last" ELSE "default"

segmentOf(i, count) ==
    IF i = 0 THEN "first" ELSE IF i = count - 1 THEN "last" ELSE "default"

\* Faulty variant: a child that carries a multiselect of its own keeps it.
mapChildKeepsOwn(child, i, count, multiselect) ==
    IF child.type # "null" /\ child.type = SegmentedButton
    THEN cloneElement(child,
            [segment |-> segmentOf(i, count),
             multiselect |-> IF child.props.multiselect # Undefined
                             THEN child.props.multiselect ELSE multiselect,
             style |-> StyleArray(<<child.props.style>>)])
    ELSE child

\* Faulty variant: the type of the child is not looked at.
mapChildAnyType(child, i, count, multiselect) ==
    IF child.type # "null"
    THEN cloneElement(child,
            [segment |-> segmentOf(i, count),
             multiselect |-> multiselect,
             style |-> StyleArray(<<child.props.style>>)])
    ELSE child

mapChild(child, i, count, multiselect) ==
    IF child.type # "null" /\ child.type = SegmentedButton
    THEN cloneElement(child,
            [segment |-> segmentOf(i, count),
             multiselect |-> multiselect,
             style |-> StyleArray(<<child.props.style>>)])
    ELSE child

(***************************************************************************)
(* React.Children.map: the callback runs on every node with its index i,   *)
(* empty nodes included; a result of null is left out of the array, and an *)
(* element in the result gets the key of its place: ".$key" for a child    *)
(* with a key, "." and the index otherwise.                                *)
(***************************************************************************)
IndexKeys == <<".0", ".1", ".2", ".3", ".4", ".5", ".6", ".7", ".8", ".9">>

ExplicitKeys == [k |-> ".$k"]

getElementKey(child, i) ==
    IF child.type # "null" /\ child.key # NoKey
    THEN ExplicitKeys[child.key]
    ELSE IndexKeys[i + 1]

cloneAndReplaceKey(element, newKey) == [element EXCEPT !.key = newKey]

IsNode(c) == c.type # "null"

\* Faulty variant: the index counts the nodes that are not empty only.
ChildrenMapSkipsEmpty(children, count, multiselect) ==
    LET nodes == SelectSeq(children, IsNode)
    IN  [j \in 1..Len(nodes) |->
            cloneAndReplaceKey(mapChild(nodes[j], j - 1, count, multiselect),
                               getElementKey(nodes[j], j - 1))]

\* Faulty variant: a result of null stays in the array.
ChildrenMapKeepsEmpty(children, count, multiselect) ==
    [j \in 1..Len(children) |->
        LET r == mapChild(children[j], j - 1, count, multiselect)
        IN  IF r.type = "null"
            THEN r
            ELSE cloneAndReplaceKey(r, getElementKey(children[j], j - 1))]

ChildrenMap(children, count, multiselect) ==
    LET mapped ==
            [j \in 1..Len(children) |->
                LET r == mapChild(children[j], j - 1, count, multiselect)
                IN  IF r.type = "null"
                    THEN r
                    ELSE cloneAndReplaceKey(r, getElementKey(children[j], j - 1))]
    IN  SelectSeq(mapped, IsNode)

(***************************************************************************)
(* The component, lines 56-97.                                             *)
(***************************************************************************)
SegmentedButtonGroupContext == [value |-> UndefinedValue, onValueChange |-> Undefined]

\* Faulty variant: the upper limit is exclusive.
InvalidCountExclusive(count) == count < MinChoices \/ count >= MaxChoices

InvalidCount(count) == count < MinChoices \/ count > MaxChoices

Thrown ==
    [outcome |-> "error", context |-> SegmentedButtonGroupContext,
     containerStyle |-> NoStyle, output |-> <<>>]

\* Faulty variant: the container's style list in the other order.
SegmentedButtonGroupStyleFirst(p) ==
    LET count == ChildrenCount(p.children)
    IN  IF InvalidCount(count)
        THEN Thrown
        ELSE [outcome |-> "ok",
              context |-> [value |-> p.value, onValueChange |-> p.onValueChange],
              containerStyle |-> StyleArray(<<p.style, styles.row>>),
              output |-> ChildrenMap(p.children, count, p.multiselect)]

\* Faulty variant: a null value is replaced by an empty array in the context.
SegmentedButtonGroupDefaultsValue(p) ==
    LET count == ChildrenCount(p.children)
    IN  IF InvalidCount(count)
        THEN Thrown
        ELSE [outcome |-> "ok",
              context |-> [value |-> IF p.value = NullValue
                                     THEN ArrayValue(<<>>) ELSE p.value,
                           onValueChange |-> p.onValueChange],
              containerStyle |-> StyleArray(<<styles.row, p.style>>),
              output |-> ChildrenMap(p.children, count, p.multiselect)]

SegmentedButtonGroup(p) ==
    LET count == ChildrenCount(p.children)
    IN  IF InvalidCount(count)
        THEN Thrown
        ELSE [outcome |-> "ok",
              context |-> [value |-> p.value, onValueChange |-> p.onValueChange],
              containerStyle |-> StyleArray(<<styles.row, p.style>>),
              output |-> ChildrenMap(p.children, count, p.multiselect)]

(***************************************************************************)
(* The host calls the component with props p.                              *)
(***************************************************************************)
\* Faulty variant: the context value is kept from the previous successful render
\* (a memo that never sees its dependencies change).
RenderMemoContext(p) ==
    LET r == SegmentedButtonGroup(p)
    IN  /\ props' = p
        /\ outcome' = r.outcome
        /\ context' = IF outcome = "ok" /\ r.outcome = "ok" THEN context ELSE r.context
        /\ containerStyle' = r.containerStyle
        /\ output' = r.output
        /\ lastOp' = "render"
        /\ UNCHANGED <<invoked, probe>>

Render(p) ==
    LET r == SegmentedButtonGroup(p)
    IN  /\ props' = p
        /\ outcome' = r.outcome
        /\ context' = r.context
        /\ containerStyle' = r.containerStyle
        /\ output' = r.output
        /\ lastOp' = "render"
        /\ UNCHANGED <<invoked, probe>>

NoCall == [fn |-> Undefined, arg |-> Undefined]

NoProbe == [taken |-> FALSE]

Init ==
    /\ props = [value |-> StringValue("left"), onValueChange |-> "setValue",
                multiselect |-> Undefined, style |-> NoStyle,
                children |-> <<LeftButton, RightButton>>]
    /\ outcome = "none"
    /\ context = SegmentedButtonGroupContext
    /\ containerStyle = NoStyle
    /\ output = <<>>
    /\ invoked = NoCall
    /\ lastOp = "init"
    /\ probe = NoProbe

Mount ==
    /\ outcome = "none"
    /\ Render(props)

ChangeValue ==
    /\ outcome # "none"
    /\ \E v \in Values \ {props.value} : Render([props EXCEPT !.value = v])

ChangeOnValueChange ==
    /\ outcome # "none"
    /\ \E f \in Callbacks \ {props.onValueChange} :
          Render([props EXCEPT !.onValueChange = f])

ChangeMultiselect ==
    /\ outcome # "none"
    /\ \E m \in Multiselects \ {props.multiselect} :
          Render([props EXCEPT !.multiselect = m])

ChangeStyle ==
    /\ outcome # "none"
    /\ \E s \in Styles \ {props.style} : Render([props EXCEPT !.style = s])

\* A list within the limit grows by any child; a list at or over the limit
\* grows by a copy of its last child (every list of MaxChoices children is
\* reached, and each of them is extended past the limit).
NextChildren(children) ==
    IF Len(children) < MaxChoices THEN Child ELSE {children[Len(children)]}

AddChild ==
    /\ outcome # "none"
    /\ Len(props.children) < MaxChildren
    /\ \E c \in NextChildren(props.children) :
          Render([props EXCEPT !.children = Append(@, c)])

RemoveChild ==
    /\ outcome # "none"
    /\ Len(props.children) > 0
    /\ Render([props EXCEPT !.children = SubSeq(@, 1, Len(@) - 1)])

Next ==
    \/ Mount
    \/ ChangeValue
    \/ ChangeOnValueChange
    \/ ChangeMultiselect
    \/ ChangeStyle
    \/ AddChild
    \/ RemoveChild

Spec == Init /\ [][Next]_vars

(***************************************************************************)
(* A second specification, for what a render does not depend on and does   *)
(* not do: the host renders the group with any props of a small sample, a  *)
(* descendant SegmentedButton calls the change callback it reads from the  *)
(* context, and the history variable records one render to compare later   *)
(* renders with.                                                           *)
(***************************************************************************)
SampleChildren ==
    { <<LeftButton>>,
      <<LeftButton, RightButton>>,
      <<OtherElement, RightButton, NullChild>>,
      <<LeftButton, LeftButton, LeftButton, LeftButton, LeftButton, RightButton>> }

SampleProps ==
    [value : Values, onValueChange : Callbacks, multiselect : {"true", Undefined},
     style : {NoStyle}, children : SampleChildren]

RenderSample == \E p \in SampleProps : Render(p)

Matching(c) == c.type = SegmentedButton

Press ==
    /\ outcome = "ok"
    /\ \E j \in 1..Len(output) :
          /\ Matching(output[j])
          /\ invoked' = [fn |-> context.onValueChange, arg |-> output[j].props.value]
    /\ lastOp' = "press"
    /\ UNCHANGED <<props, outcome, context, containerStyle, output, probe>>

Record ==
    /\ outcome # "none"
    /\ probe' = [taken |-> TRUE, props |-> props, rendering |-> rendering]
    /\ UNCHANGED <<props, outcome, context, containerStyle, output, invoked, lastOp>>

NextHistory ==
    \/ RenderSample
    \/ Press
    \/ Record

SpecHistory == Init /\ [][NextHistory]_vars

(***************************************************************************)
(* The properties.  Origins is, for each place of the output, the place    *)
(* (from 1) of the child it comes from: the children that are not empty, in *)
(* order.  The code's index i of a child at place k is k - 1.              *)
(***************************************************************************)
Rendered == outcome = "ok"

Count == Len(props.children)

NotEmpty(k) == props.children[k].type # "null"

Origins == SelectSeq([k \in 1..Count |-> k], NotEmpty)

Aligned == Len(output) = Len(Origins)

Origin(j) == props.children[Origins[j]]

Tagged(tag) == {j \in 1..Len(output) : Matching(output[j]) /\ output[j].props.segment = tag}

RECURSIVE Mentions(_, _)
Mentions(style, s) ==
    \/ style = s
    \/ \E n \in 1..Len(style.items) : Mentions(style.items[n], s)

\* C1: a render with fewer than 2 or more than 5 children raises the error
\* and leaves no context, no container and no children; a render with 2 to 5
\* children succeeds; nothing but the count decides.
C1_CountDecides ==
    outcome # "none" =>
        /\ (Count < 2 \/ Count > 5) =>
              /\ outcome = "error"
              /\ context = SegmentedButtonGroupContext
              /\ containerStyle = NoStyle
              /\ output = <<>>
        /\ (Count >= 2 /\ Count <= 5) => outcome = "ok"

C1_Witness ==
    /\ outcome = "error"
    /\ Count = 6
    /\ props.multiselect = "true"
    /\ props.value = NullValue
    /\ \A k \in 1..Count : Matching(props.children[k])

\* C2 as stated: among the children that match the SegmentedButton type, the
\* first is tagged "first", the last is tagged "last", the others "default".
C2_FirstAndLastMatching ==
    Rendered =>
        LET m == SelectSeq(output, Matching)
        IN  Len(m) >= 2 =>
              \A j \in 1..Len(m) :
                  m[j].props.segment =
                      IF j = 1 THEN "first"
                      ELSE IF j = Len(m) THEN "last" ELSE "default"

\* C2 as amended: a matching child at the first place of the children is
\* tagged "first", a matching child at the last place is tagged "last", and
\* every other matching child is tagged "default".
C2_TagsByPlace ==
    Rendered =>
        \A k \in 1..Count :
            Matching(props.children[k]) =>
                \E j \in 1..Len(output) :
                    /\ j <= Len(Origins) /\ Origins[j] = k
                    /\ Matching(output[j])
                    /\ output[j].props.value = props.children[k].props.value
                    /\ output[j].props.segment =
                          IF k = 1 THEN "first"
                          ELSE IF k = Count THEN "last" ELSE "default"

C2_Witness ==
    /\ Rendered
    /\ Count = 5
    /\ \A k \in 1..Count : Matching(props.children[k])
    /\ Len(output) = 5
    /\ output[1].props.segment = "first"
    /\ \A j \in 2..4 : output[j].props.segment = "default"
    /\ output[5].props.segment = "last"

\* C3: every matching child of a successful render carries the group's
\* multiselect, whatever multiselect it carried itself.
C3_MultiselectForwarded ==
    Rendered =>
        \A j \in 1..Len(output) :
            Matching(output[j]) => output[j].props.multiselect = props.multiselect

C3_Witness ==
    /\ Rendered
    /\ Aligned
    /\ props.multiselect = "false"
    /\ \E j \in 1..Len(output) :
          /\ Matching(output[j])
          /\ Origin(j).props.multiselect = "true"
          /\ output[j].props.multiselect = "false"

\* C4 as stated: every child that does not match, a null child included,
\* is in the output exactly as it was passed in.
C4_NonMatchingIdentical ==
    Rendered =>
        \A k \in 1..Count :
            ~Matching(props.children[k]) =>
                \E j \in 1..Len(output) : output[j] = props.children[k]

\* C4 as amended: a null child is left out of the output; every other child
\* that does not match is in the output with its type and all its props as
\* passed in, only its key rewritten to the key of its place.
C4_NonMatchingKeepProps ==
    Rendered =>
        /\ Aligned
        /\ \A j \in 1..Len(output) :
              /\ output[j].type # "null"
              /\ ~Matching(output[j]) =>
                    /\ output[j].type = Origin(j).type
                    /\ output[j].props = Origin(j).props
                    /\ Origin(j).key = NoKey => output[j].key = IndexKeys[Origins[j]]

C4_Witness ==
    /\ Rendered
    /\ Aligned
    /\ \E k \in 1..Count : props.children[k] = NullChild
    /\ props.multiselect = "true"
    /\ props.style = GroupStyle
    /\ \E j \in 1..Len(output) :
          /\ Origin(j) = OtherElement
          /\ output[j].props = OtherElement.props

\* C5: the context of a successful render has the two fields value and
\* onValueChange, each the one of the props of that render, the latest.
C5_ContextIsProps ==
    Rendered =>
        /\ DOMAIN context = {"value", "onValueChange"}
        /\ context.value = props.value
        /\ context.onValueChange = props.onValueChange

C5_Witness ==
    /\ Rendered
    /\ lastOp = "render"
    /\ props.value = NullValue
    /\ props.onValueChange = "setOther"
    /\ context = [value |-> NullValue, onValueChange |-> "setOther"]

\* C6: a render with the props of a recorded earlier render gives the
\* recorded outcome, whatever was rendered in between; and no render calls
\* the change callback.
C6_NoInternalState ==
    /\ [](probe.taken /\ probe.props = props => probe.rendering = rendering)
    /\ [][lastOp' = "render" => invoked' = invoked]_vars

C6_Witness ==
    /\ probe.taken
    /\ probe.props = props
    /\ probe.rendering = rendering
    /\ Rendered
    /\ lastOp = "render"
    /\ invoked.fn \notin {Undefined, props.onValueChange}

\* C7: the container's style is the row default followed by the group's
\* style, and the group's style is in no child's style.
C7_ContainerStyle ==
    Rendered =>
        /\ containerStyle.tag = "array"
        /\ Len(containerStyle.items) = 2
        /\ containerStyle.items[1] = StyleObject("flexDirection:row")
        /\ containerStyle.items[2] = props.style
        /\ \A j \in 1..Len(output) : ~Mentions(output[j].props.style, GroupStyle)

C7_Witness ==
    /\ Rendered
    /\ props.style = GroupStyle
    /\ containerStyle.items[2] = GroupStyle
    /\ \E j \in 1..Len(output) : Matching(output[j])

\* C8: the tag of a matching child comes from its place among all the
\* children, empty and non-matching ones counted: "first" at index 0, "last"
\* at index count - 1, "default" elsewhere; so with a first (last) child that
\* does not match, no child is tagged "first" ("last").
C8_TagFromIndex ==
    Rendered =>
        /\ Aligned
        /\ \A j \in 1..Len(output) :
              Matching(output[j]) =>
                  LET i == Origins[j] - 1
                  IN  output[j].props.segment =
                          IF i = 0 THEN "first"
                          ELSE IF i = Count - 1 THEN "last" ELSE "default"
        /\ ~Matching(props.children[1]) => Tagged("first") = {}
        /\ ~Matching(props.children[Count]) => Tagged("last") = {}

C8_Witness ==
    /\ Rendered
    /\ props.children[1] = NullChild
    /\ props.children[Count] = OtherElement
    /\ \E j \in 1..Len(output) : Matching(output[j])
    /\ Tagged("first") = {}
    /\ Tagged("last") = {}

\* C9 as stated: the output has as many children as the input, in the same
\* order.
C9_SameNumber ==
    Rendered =>
        /\ Len(output) = Count
        /\ \A k \in 1..Count : output[k].type = props.children[k].type

\* C9 as amended: the output holds the children that are not null, in their
\* order; at most one child is tagged "first" and at most one "last", the
\* child at the last place never "first"; with only SegmentedButtons there
\* is one "first", one "last" and count - 2 "default".
C9_Shape ==
    Rendered =>
        /\ Len(output) = Cardinality({k \in 1..Count : props.children[k] # NullChild})
        /\ Aligned
        /\ \A j \in 1..Len(output) :
              /\ output[j].type = Origin(j).type
              /\ output[j].props.value = Origin(j).props.value
              /\ output[j].props.icon = Origin(j).props.icon
              /\ (Matching(output[j]) /\ Origins[j] = Count) =>
                    output[j].props.segment # "first"
        /\ Cardinality(Tagged("first")) <= 1
        /\ Cardinality(Tagged("last")) <= 1
        /\ (\A k \in 1..Count : Matching(props.children[k])) =>
              /\ Cardinality(Tagged("first")) = 1
              /\ Cardinality(Tagged("last")) = 1
              /\ Cardinality(Tagged("default")) = Count - 2

C9_Witness ==
    /\ Rendered
    /\ Count = 4
    /\ \E k \in 1..Count : props.children[k] = NullChild
    /\ Len(output) = 3
    /\ Cardinality(Tagged("first")) = 1
    /\ Cardinality(Tagged("last")) = 1

\* C10: the copy of a matching child differs from the child in segment,
\* multiselect and style only: style is the list of the child's own style,
\* the other props are the child's; the children passed in stay as they were.
C10_OnlyThreeProps ==
    Rendered =>
        /\ Aligned
        /\ \A j \in 1..Len(output) :
              Matching(output[j]) =>
                  /\ Matching(Origin(j))
                  /\ DOMAIN output[j].props = DOMAIN Origin(j).props
                  /\ output[j].props.value = Origin(j).props.value
                  /\ output[j].props.icon = Origin(j).props.icon
                  /\ output[j].props.segment \in {"first", "default", "last"}
                  /\ output[j].props.multiselect = props.multiselect
                  /\ output[j].props.style.tag = "array"
                  /\ output[j].props.style.items = <<Origin(j).props.style>>
        /\ \A k \in 1..Count : props.children[k] \in Child

C10_Witness ==
    /\ Rendered
    /\ Aligned
    /\ props.multiselect = "false"
    /\ \E j \in 1..Len(output) :
          /\ Origin(j) = RightButton
          /\ output[j].props.segment = "default"
          /\ output[j].props.multiselect = "false"
          /\ output[j].props.style = StyleArray(<<StyleObject("child")>>)
          /\ output[j].props.icon = "format-align-right"

====
